---- MODULE Spec2Model ----
(***************************************************************************)
(* Model of the limit order book of src/src/lib.rs: Book::submit and       *)
(* Book::depth over the two resting vectors bids and asks.                 *)
(*                                                                         *)
(* i64 is modelled as a two's-complement integer of IntBits bits.  Rust    *)
(* arithmetic on it either panics (overflow checks on, the debug profile)  *)
(* or wraps (overflow checks off, the release profile); which one is fixed *)
(* per build and chosen in Init.  A panic ends the behaviour.              *)
(***************************************************************************)
EXTENDS Integers, Sequences, FiniteSets, TLC

VARIABLES bids, asks, overflow_checks, panicked, nsub, op, taker, trades,
          preBids, preAsks, depthRes, prevDepth,
          refBids, refAsks, refTrades

vars == <<bids, asks, overflow_checks, panicked, nsub, op, taker, trades,
          preBids, preAsks, depthRes, prevDepth,
          refBids, refAsks, refTrades>>

\* ---------------------------------------------------------------- bounds
IntBits == 3
MaxSubmits == 3

\* ------------------------------------------------------------ data model
MinInt == -(2^(IntBits - 1))
MaxInt == 2^(IntBits - 1) - 1

Side == {"Buy", "Sell"}

\* values the caller submits: the extremes of the integer type, zero and
\* negative values (no validation), and ordinary ticks and quantities
Prices == {MinInt, 0, 1}
Qtys == {-1, 0, 1, MaxInt}
Stamps == {1, 2}

Order == [id : 1..(MaxSubmits + 1), side : Side, price : Prices, qty : Qtys, ts : Stamps]

NoOrder == [id |-> 0, side |-> "Buy", price |-> 0, qty |-> 0, ts |-> 0]

\* --------------------------------------------------------- i64 arithmetic
InRange(x) == MinInt <= x /\ x <= MaxInt

Wrap(x) == ((x - MinInt) % (2^IntBits)) + MinInt

Min(a, b) == IF a <= b THEN a ELSE b

RemoveAtKeep(s, i) == s

RemoveAtPop(s, i) == SubSeq(s, 1, Len(s) - 1)

RemoveAt(s, i) == SubSeq(s, 1, i - 1) \o SubSeq(s, i + 1, Len(s))

\* ------------------------------------------------------- sort_by_key
KeyLe(k1, k2) == k1[1] < k2[1] \/ (k1[1] = k2[1] /\ k1[2] <= k2[2])

InsertSortedUnstable(run, x) ==
    LET n == Cardinality({j \in 1..Len(run) : KeyLe(run[j][1], x[1]) /\ run[j][1] # x[1]})
    IN SubSeq(run, 1, n) \o <<x>> \o SubSeq(run, n + 1, Len(run))

\* position of x in an already sorted run: behind every element whose key
\* is not greater (the sort is stable)
InsertSorted(run, x) ==
    LET n == Cardinality({j \in 1..Len(run) : KeyLe(run[j][1], x[1])})
    IN SubSeq(run, 1, n) \o <<x>> \o SubSeq(run, n + 1, Len(run))

RECURSIVE StableSort(_)
StableSort(pairs) ==
    IF pairs = <<>> THEN <<>>
    ELSE InsertSorted(StableSort(SubSeq(pairs, 1, Len(pairs) - 1)), pairs[Len(pairs)])

AskKey(x) == <<x.price, x.ts>>

BidKey(x) == <<Wrap(0 - x.price), x.ts>>

SortAsks(s) ==
    LET sorted == StableSort([j \in 1..Len(s) |-> <<AskKey(s[j]), s[j]>>])
    IN [j \in 1..Len(s) |-> sorted[j][2]]

SortBids(s) ==
    LET sorted == StableSort([j \in 1..Len(s) |-> <<BidKey(s[j]), s[j]>>])
    IN [j \in 1..Len(s) |-> sorted[j][2]]

\* the key closure runs for every element once the slice has two elements
BidKeyOverflows(s) == Len(s) >= 2 /\ \E j \in 1..Len(s) : ~InRange(0 - s[j].price)

\* ------------------------------------------------------------ submit loops
AskLoopCondNoQty(o, book, i, qty) == i <= Len(book) /\ o.price >= book[i].price

AskLoopCondNoPrice(o, book, i, qty) == i <= Len(book) /\ qty > 0

\* while i < self.asks.len() && o.qty > 0 && o.price >= self.asks[i].price
AskLoopCond(o, book, i, qty) == i <= Len(book) /\ qty > 0 /\ o.price >= book[i].price

BidLoopCondStrict(o, book, i, qty) == i <= Len(book) /\ qty > 0 /\ o.price < book[i].price

\* while i < self.bids.len() && o.qty > 0 && o.price <= self.bids[i].price
BidLoopCond(o, book, i, qty) == i <= Len(book) /\ qty > 0 /\ o.price <= book[i].price

FillOverfill(qty, makerQty) == makerQty

\* let fill = o.qty.min(maker.qty)
Fill(qty, makerQty) == Min(qty, makerQty)

RECURSIVE MatchAsks(_, _, _, _, _, _)
MatchAsks(o, book, i, qty, tr, ovf) ==
    IF AskLoopCond(o, book, i, qty)
    THEN LET maker == book[i]
             fill == Fill(qty, maker.qty)
             tr2 == Append(tr, <<o.id, maker.id, fill>>)
         IN IF fill = maker.qty
            THEN MatchAsks(o, RemoveAt(book, i), i, Wrap(qty - fill), tr2,
                           ovf \/ ~InRange(qty - fill))
            ELSE MatchAsks(o, [book EXCEPT ![i].qty = Wrap(maker.qty - fill)], i + 1,
                           Wrap(qty - fill), tr2,
                           ovf \/ ~InRange(qty - fill) \/ ~InRange(maker.qty - fill))
    ELSE [book |-> book, qty |-> qty, trades |-> tr, ovf |-> ovf]

RECURSIVE MatchBidsNoDecrement(_, _, _, _, _, _)
MatchBidsNoDecrement(o, book, i, qty, tr, ovf) ==
    IF BidLoopCond(o, book, i, qty)
    THEN LET maker == book[i]
             fill == Fill(qty, maker.qty)
             tr2 == Append(tr, <<o.id, maker.id, fill>>)
         IN IF fill = maker.qty
            THEN MatchBidsNoDecrement(o, RemoveAt(book, i), i, Wrap(qty - fill), tr2,
                                      ovf \/ ~InRange(qty - fill))
            ELSE MatchBidsNoDecrement(o, book, i + 1, Wrap(qty - fill), tr2,
                                      ovf \/ ~InRange(qty - fill))
    ELSE [book |-> book, qty |-> qty, trades |-> tr, ovf |-> ovf]

RECURSIVE MatchBids(_, _, _, _, _, _)
MatchBids(o, book, i, qty, tr, ovf) ==
    IF BidLoopCond(o, book, i, qty)
    THEN LET maker == book[i]
             fill == Fill(qty, maker.qty)
             tr2 == Append(tr, <<o.id, maker.id, fill>>)
         IN IF fill = maker.qty
            THEN MatchBids(o, RemoveAt(book, i), i, Wrap(qty - fill), tr2,
                           ovf \/ ~InRange(qty - fill))
            ELSE MatchBids(o, [book EXCEPT ![i].qty = Wrap(maker.qty - fill)], i + 1,
                           Wrap(qty - fill), tr2,
                           ovf \/ ~InRange(qty - fill) \/ ~InRange(maker.qty - fill))
    ELSE [book |-> book, qty |-> qty, trades |-> tr, ovf |-> ovf]

PushRestNonZero(own, o, qty) == IF qty # 0 THEN Append(own, [o EXCEPT !.qty = qty]) ELSE own

PushRestAlways(own, o, qty) == Append(own, [o EXCEPT !.qty = qty])

PushRestOriginal(own, o, qty) == IF qty > 0 THEN Append(own, o) ELSE own

PushRestValidated(own, o, qty) ==
    IF qty > 0 /\ o.price > 0 THEN Append(own, [o EXCEPT !.qty = qty]) ELSE own

\* if o.qty > 0 { push(o) }: the remainder is stored only while it has quantity
PushRest(own, o, qty) == IF qty > 0 THEN Append(own, [o EXCEPT !.qty = qty]) ELSE own

\* ------------------------------------------------------------------ depth
\* BTreeMap entry(price).or_insert(0) += qty, folded over the vector in order
RECURSIVE LevelMap(_, _)
LevelMap(s, n) ==
    IF n = 0 THEN [sum |-> [p \in {} |-> 0], ovf |-> FALSE]
    ELSE LET m == LevelMap(s, n - 1)
             p == s[n].price
             old == IF p \in DOMAIN m.sum THEN m.sum[p] ELSE 0
         IN [sum |-> [q \in DOMAIN m.sum \cup {p} |-> IF q = p THEN Wrap(old + s[n].qty) ELSE m.sum[q]],
             ovf |-> m.ovf \/ ~InRange(old + s[n].qty)]

RECURSIVE Ascending(_)
Ascending(S) ==
    IF S = {} THEN <<>>
    ELSE LET lo == CHOOSE x \in S : \A y \in S : x <= y
         IN <<lo>> \o Ascending(S \ {lo})

Reverse(s) == [j \in 1..Len(s) |-> s[Len(s) + 1 - j]]

AskLevels(s) ==
    LET m == LevelMap(s, Len(s)).sum
        ps == Ascending(DOMAIN m)
    IN [j \in 1..Len(ps) |-> <<ps[j], m[ps[j]]>>]

BidLevels(s) ==
    LET m == LevelMap(s, Len(s)).sum
        ps == Reverse(Ascending(DOMAIN m))
    IN [j \in 1..Len(ps) |-> <<ps[j], m[ps[j]]>>]

DepthOverflows(b, a) == LevelMap(b, Len(b)).ovf \/ LevelMap(a, Len(a)).ovf

DepthSelfDrain(s) == <<>>

\* depth takes &self: the vectors after the call are the vectors before it
DepthSelf(s) == s

\* ------------------------------------------------------------------ state
Init ==
    /\ bids = <<>>
    /\ asks = <<>>
    /\ overflow_checks = "unknown"
    /\ panicked = FALSE
    /\ nsub = 0
    /\ op = "new"
    /\ taker = NoOrder
    /\ trades = <<>>
    /\ preBids = <<>>
    /\ preAsks = <<>>
    /\ depthRes = <<<<>>, <<>>>>
    /\ prevDepth = <<>>
    /\ refBids = <<>>
    /\ refAsks = <<>>
    /\ refTrades = <<>>

\* ------------------------------------------------- reference book
\* A book that keeps each side permanently in priority order: asks by
\* ascending price, bids by descending price, then ascending ts, then
\* arrival; it matches from the front.  Prices are compared as they are.
RefBefore(a, b) ==
    \/ IF a.side = "Sell" THEN a.price < b.price ELSE a.price > b.price
    \/ a.price = b.price /\ a.ts <= b.ts

\* behind every resting order that does not come after it
RefInsert(book, o) ==
    LET n == Cardinality({j \in 1..Len(book) : RefBefore(book[j], o)})
    IN SubSeq(book, 1, n) \o <<o>> \o SubSeq(book, n + 1, Len(book))

RefMarketable(o, m) == IF o.side = "Buy" THEN o.price >= m.price ELSE o.price <= m.price

RECURSIVE RefMatch(_, _, _, _)
RefMatch(o, book, qty, tr) ==
    IF book # <<>> /\ qty > 0 /\ RefMarketable(o, Head(book))
    THEN LET maker == Head(book)
             fill == Min(qty, maker.qty)
             tr2 == Append(tr, <<o.id, maker.id, fill>>)
         IN IF fill = maker.qty
            THEN RefMatch(o, Tail(book), qty - fill, tr2)
            ELSE RefMatch(o, <<[maker EXCEPT !.qty = maker.qty - fill]>> \o Tail(book),
                          qty - fill, tr2)
    ELSE [book |-> book, qty |-> qty, trades |-> tr]

RefSubmit(o) ==
    LET r == RefMatch(o, IF o.side = "Buy" THEN refAsks ELSE refBids, o.qty, <<>>)
        own == IF o.side = "Buy" THEN refBids ELSE refAsks
    IN [opp |-> r.book,
        own |-> IF r.qty > 0 THEN RefInsert(own, [o EXCEPT !.qty = r.qty]) ELSE own,
        trades |-> r.trades]

\* what an overflowing operation can do: panic under overflow checks, wrap
\* without them; the profile is the same for the whole run
Outcomes(ovf) ==
    IF ovf /\ overflow_checks = "unknown" THEN {"panic", "wrap"}
    ELSE IF ovf THEN {"wrap"}
    ELSE {"ok"}

Profile(outcome) ==
    CASE outcome = "panic" -> "on"
      [] outcome = "wrap" -> "off"
      [] OTHER -> overflow_checks

\* sorted is self.asks after asks.sort_by_key
SubmitBuy(o, sorted) ==
    LET r == MatchAsks(o, sorted, 1, o.qty, <<>>, FALSE)
    IN \E outcome \in Outcomes(r.ovf) :
       /\ taker' = o
       /\ preBids' = bids
       /\ preAsks' = asks
       /\ nsub' = nsub + 1
       /\ depthRes' = <<<<>>, <<>>>>
       /\ prevDepth' = <<>>
       /\ op' = "submit"
       /\ overflow_checks' = Profile(outcome)
       /\ panicked' = (outcome = "panic")
       /\ IF outcome = "panic"
          THEN UNCHANGED <<bids, asks, trades>>
          ELSE /\ asks' = r.book
               /\ bids' = PushRest(bids, o, r.qty)
               /\ trades' = r.trades

\* sorted is self.bids after bids.sort_by_key
SubmitSell(o, sorted) ==
    LET r == MatchBids(o, sorted, 1, o.qty, <<>>, FALSE)
    IN \E outcome \in Outcomes(BidKeyOverflows(bids) \/ r.ovf) :
       /\ taker' = o
       /\ preBids' = bids
       /\ preAsks' = asks
       /\ nsub' = nsub + 1
       /\ depthRes' = <<<<>>, <<>>>>
       /\ prevDepth' = <<>>
       /\ op' = "submit"
       /\ overflow_checks' = Profile(outcome)
       /\ panicked' = (outcome = "panic")
       /\ IF outcome = "panic"
          THEN UNCHANGED <<bids, asks, trades>>
          ELSE /\ bids' = r.book
               /\ asks' = PushRest(asks, o, r.qty)
               /\ trades' = r.trades

Submit ==
    /\ ~panicked
    /\ nsub < MaxSubmits
    /\ LET sortedAsks == SortAsks(asks)
           sortedBids == SortBids(bids)
       IN \E sd \in Side, p \in Prices, q \in Qtys, t \in Stamps :
             LET o == [id |-> nsub + 1, side |-> sd, price |-> p, qty |-> q, ts |-> t]
             IN IF sd = "Buy" THEN SubmitBuy(o, sortedAsks) ELSE SubmitSell(o, sortedBids)
    /\ UNCHANGED <<refBids, refAsks, refTrades>>

\* the same call, delivered to the reference book as well
RefStep(o) ==
    IF panicked'
    THEN UNCHANGED <<refBids, refAsks, refTrades>>
    ELSE LET ref == RefSubmit(o)
         IN /\ refBids' = IF o.side = "Buy" THEN ref.own ELSE ref.opp
            /\ refAsks' = IF o.side = "Buy" THEN ref.opp ELSE ref.own
            /\ refTrades' = ref.trades

SubmitBoth ==
    /\ ~panicked
    /\ nsub < MaxSubmits
    /\ \E sd \in Side, p \in Prices, q \in Qtys, t \in Stamps :
          LET o == [id |-> nsub + 1, side |-> sd, price |-> p, qty |-> q, ts |-> t]
          IN /\ IF sd = "Buy" THEN SubmitBuy(o, SortAsks(asks)) ELSE SubmitSell(o, SortBids(bids))
             /\ RefStep(o)

Depth ==
    /\ ~panicked
    /\ \E outcome \in Outcomes(DepthOverflows(bids, asks)) :
       /\ bids' = DepthSelf(bids)
       /\ asks' = DepthSelf(asks)
       /\ taker' = NoOrder
       /\ trades' = <<>>
       /\ preBids' = bids
       /\ preAsks' = asks
       /\ op' = "depth"
       /\ overflow_checks' = Profile(outcome)
       /\ panicked' = (outcome = "panic")
       /\ UNCHANGED <<nsub, refBids, refAsks, refTrades>>
       /\ prevDepth' = IF op = "depth" THEN <<depthRes>> ELSE <<>>
       /\ depthRes' = IF outcome = "panic" THEN <<<<>>, <<>>>>
                      ELSE <<BidLevels(bids), AskLevels(asks)>>

Next == Submit \/ Depth

Spec == Init /\ [][Next]_vars

\* the vectors book and the reference book, given the same calls
NextBoth == SubmitBoth \/ Depth

SpecBoth == Init /\ [][NextBoth]_vars

\* =================================================================== claims
\* the last call was a submit and it returned
Returned == op = "submit" /\ ~panicked

OppPre == IF taker.side = "Buy" THEN preAsks ELSE preBids
OwnPre == IF taker.side = "Buy" THEN preBids ELSE preAsks
OppNow == IF taker.side = "Buy" THEN asks ELSE bids
OwnNow == IF taker.side = "Buy" THEN bids ELSE asks

RECURSIVE SumFills(_, _)
SumFills(tr, n) == IF n = 0 THEN 0 ELSE SumFills(tr, n - 1) + tr[n][3]

RECURSIVE SumQty(_, _)
SumQty(s, n) == IF n = 0 THEN 0 ELSE SumQty(s, n - 1) + s[n].qty

\* the resting order a trade names as its maker, as it was before the call
MakerOf(k) == OppPre[CHOOSE j \in 1..Len(OppPre) : OppPre[j].id = trades[k][2]]

\* a has strictly better price-time priority than b against the taker
Better(a, b) ==
    \/ IF taker.side = "Buy" THEN a.price < b.price ELSE a.price > b.price
    \/ a.price = b.price /\ a.ts < b.ts

Crossed == \E i \in 1..Len(bids), j \in 1..Len(asks) : bids[i].price >= asks[j].price

\* C1: when a submit returns, no resting bid has a price >= a resting ask's.
NoResidualCross == Returned => ~Crossed

\* C2: a maker is filled only after every maker of strictly better
\* price-time priority on its side (better price first, then earlier ts)
\* has been matched earlier in the same submit.
PriceTimePriority ==
    Returned =>
        \A k \in 1..Len(trades) : \A j \in 1..Len(OppPre) :
            Better(OppPre[j], MakerOf(k)) =>
                \E k2 \in 1..(k - 1) : trades[k2][2] = OppPre[j].id

\* C3 as stated: the fills of one submit never sum to more than the taker's
\* original qty, and every fill is > 0.
QtyConservationAsStated ==
    Returned =>
        /\ SumFills(trades, Len(trades)) <= taker.qty
        /\ \A k \in 1..Len(trades) : trades[k][3] > 0

\* C3 amended: the fills of one submit never sum to more than the taker's
\* original qty when that qty is >= 0, a taker with qty <= 0 gets no trade,
\* and every fill is > 0.
QtyConservation ==
    Returned =>
        /\ taker.qty >= 0 => SumFills(trades, Len(trades)) <= taker.qty
        /\ taker.qty <= 0 => trades = <<>>
        /\ \A k \in 1..Len(trades) : trades[k][3] > 0

QtyConservationWitness ==
    /\ Returned
    /\ Len(trades) >= 2
    /\ SumFills(trades, Len(trades)) = taker.qty
    /\ \E k \in 1..Len(trades) : MakerOf(k).qty > trades[k][3]
    /\ overflow_checks = "unknown"

\* C4: every order stored in bids or asks has qty > 0.
RestingQtyPositive ==
    /\ \A j \in 1..Len(bids) : bids[j].qty > 0
    /\ \A j \in 1..Len(asks) : asks[j].qty > 0

\* one maker was consumed to zero and removed, the next one keeps a rest
RestingQtyPositiveWitness ==
    /\ Returned
    /\ overflow_checks = "unknown"
    /\ Len(trades) = 2
    /\ MakerOf(1).qty = trades[1][3]
    /\ MakerOf(2).qty > trades[2][3]
    /\ Len(OppNow) = Len(OppPre) - 1

PricesOf(s) == {s[j].price : j \in 1..Len(s)}

TotalAt(s, p) == SumQty(SelectSeq(s, LAMBDA x : x.price = p), Len(SelectSeq(s, LAMBDA x : x.price = p)))

RECURSIVE SumLevels(_, _)
SumLevels(levels, n) == IF n = 0 THEN 0 ELSE SumLevels(levels, n - 1) + levels[n][2]

LevelsExact(levels, s) ==
    /\ {levels[j][1] : j \in 1..Len(levels)} = PricesOf(s)
    /\ \A j \in 1..Len(levels) : levels[j][2] = TotalAt(s, levels[j][1])
    /\ SumLevels(levels, Len(levels)) = SumQty(s, Len(s))

\* C5: depth() returns bid levels strictly descending and ask levels strictly
\* ascending by price, one level per resting price, each total the sum of the
\* remaining qty of the resting orders at that price.
DepthAggregation ==
    (op = "depth" /\ ~panicked) =>
        /\ \A j \in 1..(Len(depthRes[1]) - 1) : depthRes[1][j][1] > depthRes[1][j + 1][1]
        /\ \A j \in 1..(Len(depthRes[2]) - 1) : depthRes[2][j][1] < depthRes[2][j + 1][1]
        /\ LevelsExact(depthRes[1], bids)
        /\ LevelsExact(depthRes[2], asks)

Remainder == taker.qty - SumFills(trades, Len(trades))

\* C6: when a submit returns and the taker has qty > 0 left, its own side is
\* the former own side plus one order with the taker's id, side, price, ts
\* and the remaining qty; otherwise its own side is unchanged; the opposite
\* side gains no order either way.
TakerRemainder ==
    Returned =>
        /\ OwnNow = IF Remainder > 0
                    THEN Append(OwnPre, [id |-> taker.id, side |-> taker.side,
                                         price |-> taker.price, qty |-> Remainder,
                                         ts |-> taker.ts])
                    ELSE OwnPre
        /\ \A j \in 1..Len(OppNow) : \E i \in 1..Len(OppPre) : OppPre[i].id = OppNow[j].id

TakerRemainderWitness ==
    /\ Returned
    /\ trades # <<>>
    /\ Remainder > 0
    /\ OwnPre # <<>>
    /\ overflow_checks = "unknown"

\* C7 as stated: on an empty opposite side submit returns no trade and
\* inserts the taker, whatever its qty and price.
EmptyOppositeAsStated ==
    (Returned /\ OppPre = <<>>) =>
        /\ trades = <<>>
        /\ OwnNow = Append(OwnPre, taker)

\* C7 amended: on an empty opposite side submit returns no trade; the taker
\* is inserted unmatched on its own side when its qty is > 0 (whatever its
\* price) and is not stored when its qty is <= 0.
EmptyOpposite ==
    (Returned /\ OppPre = <<>>) =>
        /\ trades = <<>>
        /\ OppNow = <<>>
        /\ OwnNow = IF taker.qty > 0 THEN Append(OwnPre, taker) ELSE OwnPre

EmptyOppositeWitness ==
    /\ Returned
    /\ OppPre = <<>>
    /\ taker.qty > 0
    /\ taker.price <= 0
    /\ OwnPre # <<>>
    /\ overflow_checks = "unknown"

\* priority key of a maker, in unbounded integers
PriorityKey(m) == IF taker.side = "Buy" THEN <<m.price, m.ts>> ELSE <<0 - m.price, m.ts>>

\* C8: every trade of a submit carries the taker's id, no resting order is
\* the maker of two trades, and the trades come in non-decreasing priority
\* key of their makers.
TradeSequence ==
    Returned =>
        /\ \A k \in 1..Len(trades) : trades[k][1] = taker.id
        /\ \A k1, k2 \in 1..Len(trades) : trades[k1][2] = trades[k2][2] => k1 = k2
        /\ \A k \in 1..(Len(trades) - 1) :
              KeyLe(PriorityKey(MakerOf(k)), PriorityKey(MakerOf(k + 1)))

\* C9: submit and depth complete without panic and without arithmetic
\* overflow.
NoOperationFails == ~panicked /\ overflow_checks = "unknown"

\* C10: a depth call leaves bids and asks as they were, and a depth call
\* right after a depth call returns the same value.
DepthPureRead ==
    [][op' = "depth" =>
          /\ bids' = bids
          /\ asks' = asks
          /\ (op = "depth" => depthRes' = depthRes)]_vars

DepthPureReadWitness ==
    /\ op = "depth"
    /\ ~panicked
    /\ prevDepth # <<>>
    /\ prevDepth[1] = depthRes
    /\ Len(depthRes[1]) >= 2
    /\ depthRes[2] # <<>>
    /\ overflow_checks = "unknown"

IdsOf(s) == {s[j].id : j \in 1..Len(s)}

Resting == IdsOf(bids) \cup IdsOf(asks)

\* the resting order with this id, before the step
RestingOrder(id) == LET all == bids \o asks IN all[CHOOSE j \in 1..Len(all) : all[j].id = id]

\* C11: a resting maker whose quantity a submit consumes in full is in
\* neither bids nor asks when that submit returns; an order that has left the
\* book never comes back, and every maker of a trade was resting before the
\* call, so a removed order makes no later trade and no later depth level.
FullFillRemoval ==
    [][/\ \A id \in 1..nsub : id \notin Resting => id \notin Resting'
       /\ (op' = "submit" /\ ~panicked') =>
             \A k \in 1..Len(trades') :
                /\ trades'[k][2] \in Resting
                /\ trades'[k][3] = RestingOrder(trades'[k][2]).qty => trades'[k][2] \notin Resting']_vars

FullFillRemovalWitness ==
    /\ Returned
    /\ overflow_checks = "unknown"
    /\ Len(trades) = 1
    /\ MakerOf(1).qty = trades[1][3]
    /\ trades[1][2] \notin Resting
    /\ Len(OppPre) = 2
    /\ Len(OppNow) = 1

Marketable(o, m) == IF o.side = "Buy" THEN o.price >= m.price ELSE o.price <= m.price

\* one order rests, on the side opposite to the taker, and the taker is
\* marketable against it with less quantity than it holds
PartialCase ==
    /\ Returned
    /\ Len(OppPre) = 1
    /\ OwnPre = <<>>
    /\ Marketable(taker, OppPre[1])
    /\ 0 < taker.qty
    /\ taker.qty < OppPre[1].qty

PartialLevels ==
    LET level == <<<<OppPre[1].price, OppPre[1].qty - taker.qty>>>>
    IN IF taker.side = "Sell" THEN <<level, <<>>>> ELSE <<<<>>, level>>

\* C12: a taker of qty q against a single resting order of qty Q > q > 0 at
\* a marketable price, on an otherwise empty book, returns exactly the trade
\* (taker id, maker id, q), and a depth call made next reports the one level
\* (p, Q - q) on the maker's side and nothing on the taker's side.
PartialFill ==
    [][PartialCase =>
          /\ trades = <<<<taker.id, OppPre[1].id, taker.qty>>>>
          /\ op' = "depth" => (~panicked' /\ depthRes' = PartialLevels)]_vars

PartialFillWitness ==
    /\ op = "depth"
    /\ ~panicked
    /\ nsub = 2
    /\ Len(preBids) = 1
    /\ preAsks = <<>>
    /\ preBids[1].id = 1
    /\ preBids[1].qty = MaxInt - 1
    /\ depthRes = <<<<<<preBids[1].price, MaxInt - 1>>>>, <<>>>>

\* C13: the reference book, which keeps each side in priority order and
\* matches from the front, returns the same trades for every submit and the
\* same levels for every depth call as the book of unordered vectors.
StorageLayoutIndependence ==
    /\ Returned => trades = refTrades
    /\ (op = "depth" /\ ~panicked) => depthRes = <<BidLevels(refBids), AskLevels(refAsks)>>

\* while no operation has overflowed the two books agree, and the reference
\* asks are the stable sort of the asks vector
RefAgreesWithoutOverflow ==
    (overflow_checks = "unknown" /\ ~panicked) =>
        /\ op = "submit" => trades = refTrades
        /\ op = "depth" => depthRes = <<BidLevels(refBids), AskLevels(refAsks)>>
        /\ refAsks = SortAsks(asks)

\* C14: every trade of a submit names a maker that rested on the side
\* opposite to the taker, not on the taker's side, and whose price is
\* marketable against the taker's.
TradesMarketable ==
    Returned =>
        \A k \in 1..Len(trades) :
            /\ trades[k][2] \in IdsOf(OppPre)
            /\ trades[k][2] \notin IdsOf(OwnPre)
            /\ MakerOf(k).side # taker.side
            /\ Marketable(taker, MakerOf(k))

\* a trade was made while a non-marketable order rested on the opposite side
TradesMarketableWitness ==
    /\ Returned
    /\ overflow_checks = "unknown"
    /\ trades # <<>>
    /\ \E j \in 1..Len(OppPre) : ~Marketable(taker, OppPre[j])
    /\ Remainder > 0

\* C15: when a submit of a taker with qty > 0 returns, the taker is filled in
\* full or no order left on the opposite side is marketable against it.
MatchingExhaustive ==
    (Returned /\ taker.qty > 0) =>
        \/ SumFills(trades, Len(trades)) = taker.qty
        \/ \A j \in 1..Len(OppNow) : ~Marketable(taker, OppNow[j])

\* C16: each fill is the minimum of what the taker and the maker hold when
\* they match, and a submit of a taker with qty > 0 lowers the resting
\* quantity of the opposite side by the sum of its fills and raises that of
\* the taker's side by the taker's qty less the sum of its fills.
QtyAccounting ==
    (Returned /\ taker.qty > 0) =>
        /\ \A k \in 1..Len(trades) :
              trades[k][3] = Min(taker.qty - SumFills(trades, k - 1), MakerOf(k).qty)
        /\ SumQty(OppNow, Len(OppNow)) = SumQty(OppPre, Len(OppPre)) - SumFills(trades, Len(trades))
        /\ SumQty(OwnNow, Len(OwnNow)) = SumQty(OwnPre, Len(OwnPre)) + Remainder

QtyAccountingWitness ==
    /\ Returned
    /\ overflow_checks = "unknown"
    /\ Len(trades) = 2
    /\ Remainder > 0
    /\ OwnNow # <<>>

RangeOf(s) == {s[j] : j \in 1..Len(s)}

\* what this submit filled of the resting order with this id
FilledOf(id) ==
    IF \E k \in 1..Len(trades) : trades[k][2] = id
    THEN trades[CHOOSE k \in 1..Len(trades) : trades[k][2] = id][3]
    ELSE 0

\* C17: a submit leaves every order of the taker's side as it was and adds at
\* most the taker's remainder behind them; on the opposite side an order no
\* trade names keeps all its fields, an order a trade names loses exactly the
\* filled qty and is removed exactly when nothing is left, and no order is
\* added or gains quantity.
SubmitFrame ==
    Returned =>
        /\ SubSeq(OwnNow, 1, Len(OwnPre)) = OwnPre
        /\ Len(OwnNow) <= Len(OwnPre) + 1
        /\ Len(OwnNow) = Len(OwnPre) + 1 => OwnNow[Len(OwnNow)].id = taker.id
        /\ \A j \in 1..Len(OppPre) :
              LET m == OppPre[j]
                  f == FilledOf(m.id)
              IN IF f = m.qty
                 THEN m.id \notin IdsOf(OppNow)
                 ELSE /\ f >= 0
                      /\ [m EXCEPT !.qty = m.qty - f] \in RangeOf(OppNow)
        /\ IdsOf(OppNow) \subseteq IdsOf(OppPre)
        /\ Cardinality(IdsOf(OppNow)) = Len(OppNow)

\* one maker was reduced and another order of its side was left alone
SubmitFrameWitness ==
    /\ Returned
    /\ overflow_checks = "unknown"
    /\ Len(trades) = 1
    /\ Len(OppPre) = 2
    /\ Len(OppNow) = 2
    /\ MakerOf(1).qty > trades[1][3]
    /\ OppNow # OppPre

\* C18: every maker of a submit's trades but the last is consumed in full and
\* removed; when the last is left resting with part of its qty, the taker
\* has nothing left and is not inserted.
OnePartialMaker ==
    Returned =>
        /\ \A k \in 1..(Len(trades) - 1) :
              /\ trades[k][3] = MakerOf(k).qty
              /\ trades[k][2] \notin IdsOf(OppNow)
        /\ (trades # <<>> /\ trades[Len(trades)][2] \in IdsOf(OppNow)) =>
              /\ trades[Len(trades)][3] < MakerOf(Len(trades)).qty
              /\ Remainder = 0
              /\ OwnNow = OwnPre

OnePartialMakerWitness ==
    /\ Returned
    /\ overflow_checks = "unknown"
    /\ Len(trades) = 2
    /\ trades[2][2] \in IdsOf(OppNow)
    /\ trades[1][2] \notin IdsOf(OppNow)
    /\ MakerOf(1).ts > MakerOf(2).ts

\* C19: a submit of a taker with qty <= 0 returns no trade, stores the taker
\* on neither side and leaves every resting order with the fields it had;
\* none is removed (the opposite vector may come back in another order).
NonPositiveTakerNoOp ==
    (Returned /\ taker.qty <= 0) =>
        /\ trades = <<>>
        /\ OwnNow = OwnPre
        /\ RangeOf(OppNow) = RangeOf(OppPre)
        /\ Len(OppNow) = Len(OppPre)
        /\ taker.id \notin Resting

\* a taker without quantity met a marketable maker, and the vector was sorted
NonPositiveTakerNoOpWitness ==
    /\ Returned
    /\ overflow_checks = "unknown"
    /\ taker.qty <= 0
    /\ Len(OppPre) = 2
    /\ OppNow # OppPre
    /\ \A j \in 1..Len(OppPre) : Marketable(taker, OppPre[j])

TypeOK ==
    /\ op \in {"new", "submit", "depth"}
    /\ panicked \in BOOLEAN
    /\ nsub \in 0..MaxSubmits
    /\ \A j \in 1..Len(bids) : bids[j].side = "Buy" /\ InRange(bids[j].qty)
    /\ \A j \in 1..Len(asks) : asks[j].side = "Sell" /\ InRange(asks[j].qty)
====
